---- MODULE Spec2Model ----
(***************************************************************************)
(* A model of the rule-based tutoring API of main.py: the POST /api/assist *)
(* pipeline (request validation, safety filter, per-subject keyword        *)
(* classification, grade-tier tone, section assembly) and the pure         *)
(* functions it is built from.  Texts are TLA+ strings; a character is a   *)
(* string of length one, obtained with SubSeq.                             *)
(***************************************************************************)
EXTENDS Integers, Sequences, FiniteSets, TLC

VARIABLES
    pc,       \* where the service is in handling the request
    req,      \* the request in flight (or the arguments of a direct call)
    resp,     \* the response of assist
    content,  \* assist's local variable content (or a direct call's result)
    tone,     \* assist's local variable tone
    ran       \* the functions the handler has called, in order

vars == <<pc, req, resp, content, tone, ran>>

(***************************************************************************)
(* Bounds of the model.                                                    *)
(***************************************************************************)
\* the number of fragments a generated question is concatenated from
MaxWords == 2
\* the length of a generated needs list
MaxNeeds == 2

(***************************************************************************)
(* Python string primitives.                                               *)
(***************************************************************************)
Char(s, i) == SubSeq(s, i, i)

\* one character of str.lower() (the letters of the ASCII alphabet)
LowerChar(c) ==
    CASE c = "A" -> "a" [] c = "B" -> "b" [] c = "C" -> "c" [] c = "D" -> "d"
      [] c = "E" -> "e" [] c = "F" -> "f" [] c = "G" -> "g" [] c = "H" -> "h"
      [] c = "I" -> "i" [] c = "J" -> "j" [] c = "K" -> "k" [] c = "L" -> "l"
      [] c = "M" -> "m" [] c = "N" -> "n" [] c = "O" -> "o" [] c = "P" -> "p"
      [] c = "Q" -> "q" [] c = "R" -> "r" [] c = "S" -> "s" [] c = "T" -> "t"
      [] c = "U" -> "u" [] c = "V" -> "v" [] c = "W" -> "w" [] c = "X" -> "x"
      [] c = "Y" -> "y" [] c = "Z" -> "z" [] OTHER -> c

RECURSIVE Lower(_)
\* str.lower()
Lower(s) ==
    IF s = "" THEN ""
    ELSE LowerChar(Char(s, 1)) \o Lower(SubSeq(s, 2, Len(s)))

\* the operator "k in t" on strings: k is a substring of t
Contains(k, t) ==
    \E i \in 1..(Len(t) - Len(k) + 1) : SubSeq(t, i, i + Len(k) - 1) = k

\* any(k in t for k in ks)
AnyIn(ks, t) == \E k \in ks : Contains(k, t)

Whitespace == {" ", "\t", "\n"}

RECURSIVE LStrip(_)
LStrip(s) ==
    IF s # "" /\ Char(s, 1) \in Whitespace
    THEN LStrip(SubSeq(s, 2, Len(s)))
    ELSE s

RECURSIVE RStrip(_)
RStrip(s) ==
    IF s # "" /\ Char(s, Len(s)) \in Whitespace
    THEN RStrip(SubSeq(s, 1, Len(s) - 1))
    ELSE s

\* str.strip()
Strip(s) == RStrip(LStrip(s))

\* dict.update(): the keys of extra are added to base, replacing equal keys
Update(base, extra) ==
    [k \in (DOMAIN base) \cup (DOMAIN extra) |->
        IF k \in DOMAIN extra THEN extra[k] ELSE base[k]]

\* the value None of an Optional[str] field
None == "<None>"

(***************************************************************************)
(* The request and response models.                                        *)
(***************************************************************************)
Subject == {"Math", "Science", "English", "Social Studies", "Languages", "Computer"}

NeedKinds ==
    {"explanation", "steps", "examples", "practice", "summary", "tips",
     "fun_facts", "related", "visuals", "revision", "quiz"}

\* student_class: ge=1, le=10
MinClass == 1
MaxClass == 10
\* question: min_length=3
MinQuestionLen == 3

\* needs: Optional[List[...]] = None.  given = FALSE is None.
NoNeeds == [given |-> FALSE, list |-> <<>>]
Needs(l) == [given |-> TRUE, list |-> l]

\* the validation with the le=10 constraint missing
ValidRequest_no_upper_bound(r) ==
    /\ r.student_class >= MinClass
    /\ r.subject \in Subject
    /\ Len(r.question) >= MinQuestionLen
    /\ \A i \in 1..Len(r.needs.list) : r.needs.list[i] \in NeedKinds

\* the validation of AssistRequest done before the handler is entered
ValidRequest(r) ==
    /\ r.student_class >= MinClass
    /\ r.student_class <= MaxClass
    /\ r.subject \in Subject
    /\ Len(r.question) >= MinQuestionLen
    /\ \A i \in 1..Len(r.needs.list) : r.needs.list[i] \in NeedKinds

Section(title, body) == [title |-> title, content |-> body]

AssistResponse(level, subject, topic, sections, safety_note, follow_up) ==
    [level |-> level, subject |-> subject, topic |-> topic,
     sections |-> sections, safety_note |-> safety_note, follow_up |-> follow_up]

(***************************************************************************)
(* Safety filter.                                                          *)
(***************************************************************************)
HARMFUL_KEYWORDS ==
    {"self-harm", "suicide", "violence", "bomb", "weapon", "drugs", "extremism"}

\* the filter without the lower-casing step
is_harmful_case_sensitive(text) == AnyIn(HARMFUL_KEYWORDS, text)

is_harmful(text) ==
    LET t == Lower(text)
    IN  AnyIn(HARMFUL_KEYWORDS, t)

(***************************************************************************)
(* Tone.                                                                   *)
(***************************************************************************)
\* the tiers with the first boundary off by one (level < 2)
level_tone_off_by_one(level) ==
    IF level < 2
    THEN [voice |-> "very simple, friendly", sent_len |-> 8, bullets |-> TRUE]
    ELSE IF level <= 5
    THEN [voice |-> "simple and clear", sent_len |-> 12, bullets |-> TRUE]
    ELSE IF level <= 8
    THEN [voice |-> "clear with a bit more detail", sent_len |-> 16, bullets |-> TRUE]
    ELSE [voice |-> "concise, structured, and exam-oriented", sent_len |-> 18,
          bullets |-> TRUE]

level_tone(level) ==
    IF level <= 2
    THEN [voice |-> "very simple, friendly", sent_len |-> 8, bullets |-> TRUE]
    ELSE IF level <= 5
    THEN [voice |-> "simple and clear", sent_len |-> 12, bullets |-> TRUE]
    ELSE IF level <= 8
    THEN [voice |-> "clear with a bit more detail", sent_len |-> 16, bullets |-> TRUE]
    ELSE [voice |-> "concise, structured, and exam-oriented", sent_len |-> 18,
          bullets |-> TRUE]

(***************************************************************************)
(* Content generators.  A bundle is a record from section keys to          *)
(* sequences of lines.                                                     *)
(***************************************************************************)
MathAdditionKeywords == {"add", "sum", "+", "plus"}
MathSubtractionKeywords == {"subtrac", "-", "minus", "difference"}
MathFractionKeywords == {"fraction", "/", "numerator", "denominator"}
MathAlgebraKeywords == {"algebra", "solve", "equation", "x=", "find x"}

MathAddition ==
    [steps |-> <<"Line up the numbers by place value.",
                 "Add digits from right to left.",
                 "If a sum is 10 or more, carry to the next place.",
                 "Write the final answer neatly.">>,
     examples |-> <<"23 + 19 = 42", "305 + 70 = 375">>,
     practice |-> <<"47 + 28 = ?", "506 + 289 = ?">>,
     tips |-> <<"Check by reversing the addends.",
                "Estimate first to see if your answer is reasonable.">>]

MathSubtraction ==
    [steps |-> <<"Line up the numbers by place value.",
                 "Subtract from right to left.",
                 "If the top digit is smaller, borrow from the next left place.",
                 "Write the difference.">>,
     examples |-> <<"54 - 27 = 27", "700 - 256 = 444">>,
     practice |-> <<"63 - 38 = ?", "900 - 457 = ?">>,
     tips |-> <<"Add the answer to the smaller number to check.">>]

MathFraction ==
    [steps |-> <<"Make denominators the same if you add or subtract.",
                 "Multiply across for multiplication.",
                 "Flip the second fraction and multiply for division.",
                 "Simplify by dividing numerator and denominator by the same number.">>,
     examples |-> <<"1/2 + 1/3 = 5/6", "3/4 × 2/3 = 1/2">>,
     practice |-> <<"2/5 + 1/10 = ?", "5/6 ÷ 2/3 = ?">>,
     tips |-> <<"Always simplify your final fraction.">>]

MathAlgebra ==
    [steps |-> <<"Keep the equation balanced: do the same to both sides.",
                 "Move constants to one side and variables to the other.",
                 "Combine like terms.",
                 "Isolate the variable to find its value.">>,
     examples |-> <<"2x + 5 = 13 → 2x = 8 → x = 4", "3(x-2) = 9 → x-2 = 3 → x = 5">>,
     practice |-> <<"5x - 7 = 18", "4(x + 3) = 28">>,
     tips |-> <<"Check by substituting your value back into the equation.">>]

MathGeneric ==
    [steps |-> <<"Identify what is being asked.",
                 "Write down the known information.",
                 "Choose a suitable method or formula.",
                 "Solve step by step and check your answer.">>,
     examples |-> <<"Area of rectangle: A = l × w",
                    "Mean = sum of data ÷ number of items">>,
     practice |-> <<"Find the perimeter of a 6 cm by 9 cm rectangle.",
                    "Calculate the mean of 5, 7, 3, 10.">>,
     tips |-> <<"Underline key numbers and units.">>]

\* the if/elif chain of explain_math
MathBranch(q) ==
    IF AnyIn(MathAdditionKeywords, Lower(q)) THEN MathAddition
    ELSE IF AnyIn(MathSubtractionKeywords, Lower(q)) THEN MathSubtraction
    ELSE IF AnyIn(MathFractionKeywords, Lower(q)) THEN MathFraction
    ELSE IF AnyIn(MathAlgebraKeywords, Lower(q)) THEN MathAlgebra
    ELSE MathGeneric

\* the dictionary explain_math returns, given the branch's four lists
MathBundle(b) ==
    [steps |-> b.steps,
     examples |-> b.examples,
     practice |-> b.practice,
     tips |-> b.tips,
     summary |-> <<"Solve carefully, show steps, and double-check.">>,
     fun_facts |-> <<"Zero is the only number that is neither positive nor negative.">>,
     related |-> <<"Place value", "Word problems", "Estimation">>,
     visuals |-> <<"Picture: Number line showing jumps for addition/subtraction.",
                   "Diagram: Balance scale to show equation solving.">>,
     revision |-> <<"Revise place value and basic operations.",
                    "Memorize common fraction equivalents (1/2=0.5, 1/4=0.25).">>,
     quiz |-> <<"Quick Quiz: 12 + 19 = ?",
                "True/False: To divide fractions, flip the second and multiply.">>]

\* the chain with the subtraction test moved before the addition test
explain_math_subtraction_first(level, question) ==
    LET q == Strip(question)
    IN  MathBundle(
            IF AnyIn(MathSubtractionKeywords, Lower(q)) THEN MathSubtraction
            ELSE IF AnyIn(MathAdditionKeywords, Lower(q)) THEN MathAddition
            ELSE IF AnyIn(MathFractionKeywords, Lower(q)) THEN MathFraction
            ELSE IF AnyIn(MathAlgebraKeywords, Lower(q)) THEN MathAlgebra
            ELSE MathGeneric)

\* the classifier giving the first two grades one practice question only
explain_math_graded_practice(level, question) ==
    LET q == Strip(question)
        b == MathBundle(MathBranch(q))
    IN  IF level <= 2
        THEN [b EXCEPT !.practice = SubSeq(b.practice, 1, 1)]
        ELSE b

explain_math(level, question) ==
    LET q == Strip(question)
    IN  MathBundle(MathBranch(q))

SciencePhotosynthesis ==
    [steps |-> <<"Plants take in sunlight with chlorophyll in leaves.",
                 "They use water from roots and carbon dioxide from air.",
                 "They make glucose (food) and release oxygen.">>,
     examples |-> <<"Leaf in sunlight makes more oxygen than in shade.">>,
     practice |-> <<"Name two things plants need for photosynthesis.",
                    "Why is sunlight important?">>,
     tips |-> <<"Remember: Sun + CO2 + Water → Glucose + Oxygen">>,
     summary |-> <<"Photosynthesis is how plants make food using sunlight.">>,
     fun_facts |-> <<"Chloroplasts are the tiny food factories in plant cells.">>,
     related |-> <<"Food chains", "Respiration", "Plant cells">>]

ScienceGeneric ==
    [steps |-> <<"Observe, ask a question, make a hypothesis, test, and conclude.">>,
     examples |-> <<"Testing which paper towel absorbs more water.">>,
     practice |-> <<"Write a simple hypothesis about melting ice.">>,
     tips |-> <<"Change only one variable at a time.">>,
     summary |-> <<"Science uses fair tests to learn about the world.">>,
     fun_facts |-> <<"Honey never spoils because it has very little water.">>,
     related |-> <<"Variables", "Fair test", "Data tables">>]

ScienceExtra ==
    [visuals |-> <<"Diagram: Sun → Leaf → Sugar + Oxygen arrows.",
                   "Chart: Variables vs outcomes in an experiment.">>,
     revision |-> <<"Recall: solid, liquid, gas changes.",
                    "Know the steps of the scientific method.">>,
     quiz |-> <<"MCQ: Plants take in (a) oxygen (b) carbon dioxide during photosynthesis.",
                "Fill in the blank: Energy for photosynthesis comes from _____.">>]

\* the classifier without the base.update(...) of visuals, revision and quiz
explain_science_no_update(level, question) ==
    LET q == Lower(question)
    IN  IF Contains("photosynthesis", q)
        THEN SciencePhotosynthesis
        ELSE ScienceGeneric

explain_science(level, question) ==
    LET q == Lower(question)
        base == IF Contains("photosynthesis", q)
                THEN SciencePhotosynthesis
                ELSE ScienceGeneric
    IN  Update(base, ScienceExtra)

EnglishKeywords == {"noun", "verb", "adjective", "adverb"}

EnglishPartsOfSpeech ==
    [steps |-> <<"Find the word's job in the sentence.">>,
     examples |-> <<"Noun: dog; Verb: runs; Adjective: happy; Adverb: quickly.">>,
     practice |-> <<"Underline the verbs in: The cat quietly slept.">>,
     tips |-> <<"Adjectives describe nouns; adverbs describe verbs/adjectives.">>,
     summary |-> <<"Parts of speech tell how words work.">>,
     fun_facts |-> <<"English borrows words from many languages!">>,
     related |-> <<"Sentence types", "Punctuation">>]

EnglishGeneric ==
    [steps |-> <<"Read closely, find main idea, then details.">>,
     examples |-> <<"Main idea: what the text is mostly about.">>,
     practice |-> <<"Write a 2-sentence summary of a short paragraph.">>,
     tips |-> <<"Use transition words: first, then, finally.">>,
     summary |-> <<"Clarity and structure make writing strong.">>,
     fun_facts |-> <<"There are more than a million English words.">>,
     related |-> <<"Synonyms", "Paragraphs", "Summaries">>]

EnglishExtra ==
    [visuals |-> <<"Mind map: Topic in center with branches for main idea and details.",
                   "Color-coded sentence showing noun/verb/adjective/adverb.">>,
     revision |-> <<"Revise punctuation basics: . , ? !",
                    "Know the difference between there/they're/their.">>,
     quiz |-> <<"Identify the adjective: The small puppy barked loudly.",
                "Choose a transition to add: First/Then/Finally.">>]

explain_english(level, question) ==
    LET q == Lower(question)
        base == IF AnyIn(EnglishKeywords, q)
                THEN EnglishPartsOfSpeech
                ELSE EnglishGeneric
    IN  Update(base, EnglishExtra)

SocialKeywords == {"democracy", "government"}

SocialDemocracy ==
    [steps |-> <<"People choose leaders, leaders make and enforce rules.">>,
     examples |-> <<"Voting in local elections.">>,
     practice |-> <<"Name two features of a democracy.">>,
     tips |-> <<"Remember: rights and responsibilities go together.">>,
     summary |-> <<"Democracy means rule by the people.">>,
     fun_facts |-> <<"Ancient Athens had an early form of democracy.">>,
     related |-> <<"Constitution", "Citizenship">>]

SocialGeneric ==
    [steps |-> <<"Identify time, place, people, and causes/effects.">>,
     examples |-> <<"Cause and effect in historical events.">>,
     practice |-> <<"Make a timeline of three key events from a chapter.">>,
     tips |-> <<"Use maps and dates to organize information.">>,
     summary |-> <<"Social studies connects people, places, and time.">>,
     fun_facts |-> <<"The Silk Road was a network, not one road.">>,
     related |-> <<"Timelines", "Maps", "Civics">>]

SocialExtra ==
    [visuals |-> <<"Timeline sketch with dates and short notes.",
                   "Map outline highlighting key regions.">>,
     revision |-> <<"Remember key terms: democracy, constitution, citizen.",
                    "Practice reading maps and legends.">>,
     quiz |-> <<"Short answer: What is one feature of a democracy?",
                "Match: Event → Year (from your chapter).">>]

explain_social(level, question) ==
    LET q == Lower(question)
        base == IF AnyIn(SocialKeywords, q)
                THEN SocialDemocracy
                ELSE SocialGeneric
    IN  Update(base, SocialExtra)

LanguagesBase ==
    [steps |-> <<"Learn basic greetings, numbers, and simple grammar.">>,
     examples |-> <<"Hola (Hello) in Spanish; Namaste in Hindi.">>,
     practice |-> <<"Translate five classroom objects into the target language.">>,
     tips |-> <<"Practice a little every day and speak out loud.">>,
     summary |-> <<"Start small and build vocabulary steadily.">>,
     fun_facts |-> <<"Many languages share common roots called cognates.">>,
     related |-> <<"Pronunciation", "Vocabulary", "Grammar">>]

LanguagesExtra ==
    [visuals |-> <<"Flashcards with picture on one side and word on the other.">>,
     revision |-> <<"Revise 10 core words daily and one grammar rule.">>,
     quiz |-> <<"Say or write 3 greetings and 3 numbers in the language.">>]

explain_languages(level, question) ==
    Update(LanguagesBase, LanguagesExtra)

ComputerKeywords == {"algorithm", "flowchart"}

ComputerAlgorithm ==
    [steps |-> <<"Define the problem clearly.",
                 "List steps in order (algorithm).",
                 "Draw a flowchart with start/end, input/output, and process boxes.",
                 "Test the steps with a simple example.">>,
     examples |-> <<"Algorithm: Make tea → Boil water → Add tea → Pour → Add milk/sugar.",
                    "Flowchart: Start → Read two numbers → Add → Show sum → End">>,
     practice |-> <<"Write an algorithm for brushing teeth.",
                    "Draw a flowchart for adding two numbers.">>,
     tips |-> <<"Use clear, short steps; one action per step.">>,
     summary |-> <<"Algorithms are ordered steps; flowcharts show them visually.">>,
     fun_facts |-> <<"The word 'algorithm' comes from Al-Khwarizmi, a Persian scholar.">>,
     related |-> <<"Pseudocode", "Debugging", "Programming basics">>]

ComputerGeneric ==
    [steps |-> <<"Input → Process → Output → Storage (IPO cycle).">>,
     examples |-> <<"Typing (input), Word processor (process), Printed page (output).">>,
     practice |-> <<"List 2 input and 2 output devices.">>,
     tips |-> <<"Keep files organized with clear names and folders.">>,
     summary |-> <<"Computers take input, process it, and give output; they can store data.">>,
     fun_facts |-> <<"Early computers filled whole rooms!">>,
     related |-> <<"Hardware", "Software", "Networks">>]

ComputerExtra ==
    [visuals |-> <<"Block diagram: Input → CPU → Output, with Storage connected.">>,
     revision |-> <<"Revise basic parts: CPU, memory, storage, input/output devices.">>,
     quiz |-> <<"MCQ: CPU stands for _____.", "Name one input and one output device.">>]

explain_computer(level, question) ==
    LET q == Lower(question)
        base == IF AnyIn(ComputerKeywords, q)
                THEN ComputerAlgorithm
                ELSE ComputerGeneric
    IN  Update(base, ComputerExtra)

\* the dispatch with the Computer branch missing
generate_content_no_computer(level, subject, question) ==
    IF subject = "Math" THEN explain_math(level, question)
    ELSE IF subject = "Science" THEN explain_science(level, question)
    ELSE IF subject = "English" THEN explain_english(level, question)
    ELSE IF subject = "Social Studies" THEN explain_social(level, question)
    ELSE explain_languages(level, question)

generate_content(level, subject, question) ==
    IF subject = "Math" THEN explain_math(level, question)
    ELSE IF subject = "Science" THEN explain_science(level, question)
    ELSE IF subject = "English" THEN explain_english(level, question)
    ELSE IF subject = "Social Studies" THEN explain_social(level, question)
    ELSE IF subject = "Computer" THEN explain_computer(level, question)
    ELSE explain_languages(level, question)

(***************************************************************************)
(* The handler of POST /api/assist.                                        *)
(***************************************************************************)
\* set(l) of a list
SetOf(l) == {l[i] : i \in DOMAIN l}

order ==
    <<"explanation", "steps", "examples", "practice", "summary", "tips",
      "fun_facts", "related", "visuals", "revision", "quiz">>

\* the table with the entries of tips and summary exchanged
mapping_tips_before_summary ==
    <<[key |-> "steps", title |-> "Step-by-step"],
      [key |-> "examples", title |-> "Examples"],
      [key |-> "practice", title |-> "Practice Questions"],
      [key |-> "tips", title |-> "Helpful Tips"],
      [key |-> "summary", title |-> "Quick Summary"],
      [key |-> "fun_facts", title |-> "Fun Facts"],
      [key |-> "related", title |-> "Related Topics"],
      [key |-> "visuals", title |-> "Visual Description"],
      [key |-> "revision", title |-> "Revision Notes"],
      [key |-> "quiz", title |-> "Interactive Quiz"]>>

\* the dictionary mapping, in its insertion order (the order of mapping.items())
mapping ==
    <<[key |-> "steps", title |-> "Step-by-step"],
      [key |-> "examples", title |-> "Examples"],
      [key |-> "practice", title |-> "Practice Questions"],
      [key |-> "summary", title |-> "Quick Summary"],
      [key |-> "tips", title |-> "Helpful Tips"],
      [key |-> "fun_facts", title |-> "Fun Facts"],
      [key |-> "related", title |-> "Related Topics"],
      [key |-> "visuals", title |-> "Visual Description"],
      [key |-> "revision", title |-> "Revision Notes"],
      [key |-> "quiz", title |-> "Interactive Quiz"]>>

\* include = set(req.needs) if req.needs else set(order): None and the empty
\* list are both falsy
include(r) ==
    IF r.needs.given /\ r.needs.list # <<>> THEN SetOf(r.needs.list) ELSE SetOf(order)

intro(r) ==
    <<"Let's learn about: " \o Strip(r.question) \o ".",
      "I'll keep it " \o level_tone(r.student_class).voice \o ".",
      "You'll get steps, examples, practice, visuals, a short quiz, and revision notes.">>

RECURSIVE MappedSections(_, _, _)
\* the loop over mapping.items(), from entry i on
MappedSections(i, inc, bundle) ==
    IF i > Len(mapping) THEN <<>>
    ELSE IF mapping[i].key \in inc /\ mapping[i].key \in DOMAIN bundle
         THEN <<Section(mapping[i].title, bundle[mapping[i].key])>>
                  \o MappedSections(i + 1, inc, bundle)
         ELSE MappedSections(i + 1, inc, bundle)

follow_up ==
    "If this isn't quite your topic, tell me your class (1-10) and the exact chapter or exercise number."

\* the refusal that also carries the follow-up prompt
safety_response_with_follow_up(r) ==
    AssistResponse(
        r.student_class, r.subject, "Safety Guard",
        <<Section("Notice",
            <<"I can't help with harmful or inappropriate content.",
              "Please ask about your school subjects like Math, Science, English, Social Studies, Languages, or Computer.">>)>>,
        "Content filtered for safety.", follow_up)

\* the response returned on the safety-filtered path
safety_response(r) ==
    AssistResponse(
        r.student_class, r.subject, "Safety Guard",
        <<Section("Notice",
            <<"I can't help with harmful or inappropriate content.",
              "Please ask about your school subjects like Math, Science, English, Social Studies, Languages, or Computer.">>)>>,
        "Content filtered for safety.", None)

\* the response whose level is the first grade of the tone tier
content_response_tier_level(r) ==
    LET bundle == generate_content(r.student_class, r.subject, r.question)
        inc == include(r)
        lvl == IF r.student_class <= 2 THEN 1
               ELSE IF r.student_class <= 5 THEN 3
               ELSE IF r.student_class <= 8 THEN 6 ELSE 9
        sections ==
            (IF "explanation" \in inc THEN <<Section("Explanation", intro(r))>> ELSE <<>>)
                \o MappedSections(1, inc, bundle)
    IN  AssistResponse(lvl, r.subject, Strip(r.question), sections, None, follow_up)

\* the response returned on the content path
content_response(r) ==
    LET bundle == generate_content(r.student_class, r.subject, r.question)
        inc == include(r)
        sections ==
            (IF "explanation" \in inc THEN <<Section("Explanation", intro(r))>> ELSE <<>>)
                \o MappedSections(1, inc, bundle)
    IN  AssistResponse(r.student_class, r.subject, Strip(r.question), sections,
                       None, follow_up)

assist(r) ==
    IF is_harmful(r.question) THEN safety_response(r) ELSE content_response(r)

(***************************************************************************)
(* The values of the variables while nothing has been assigned to them.    *)
(***************************************************************************)
NoReq == [student_class |-> 0, subject |-> "", question |-> "", needs |-> NoNeeds]
NoResp == AssistResponse(0, "", "", <<>>, None, None)
NoContent == [k \in {} |-> <<>>]
NoTone == [voice |-> None, sent_len |-> 0, bullets |-> FALSE]

(***************************************************************************)
(* The inputs.  A generated question is the concatenation of at most       *)
(* MaxWords fragments, so that a keyword can stand alone, be embedded, be   *)
(* joined from two fragments, or meet another keyword.                     *)
(***************************************************************************)
RECURSIVE QuestionsOf(_, _)
QuestionsOf(frags, n) ==
    IF n = 0 THEN {""}
    ELSE LET shorter == QuestionsOf(frags, n - 1)
         IN  shorter \cup {p \o f : p \in shorter, f \in frags}

RECURSIVE ListsOf(_, _)
ListsOf(kinds, n) ==
    IF n = 0 THEN {<<>>}
    ELSE LET shorter == ListsOf(kinds, n - 1)
         IN  shorter \cup {Append(l, k) : l \in shorter, k \in kinds}

Request(c, s, q, n) == [student_class |-> c, subject |-> s, question |-> q, needs |-> n]

\* subjects a client can send: the six of the enum and two outside it
SubjectInputs == Subject \cup {"Art", "math"}

SafetyFragments ==
    HARMFUL_KEYWORDS \cup {"BOMB", "Weap", "on", " ", "add", "x"}

FieldQuestions ==
    {"", "hi", "   ", "a bomb", "WEAPONS", "add 2 and 3", "  What is a noun?\n"}

ClassifierKeywords ==
    MathAdditionKeywords \cup MathSubtractionKeywords \cup MathFractionKeywords
        \cup MathAlgebraKeywords \cup {"photosynthesis"} \cup EnglishKeywords
        \cup SocialKeywords \cup ComputerKeywords

BranchQuestions ==
    {"Please explain " \o k \o " to me" : k \in ClassifierKeywords}
        \cup {"What is this?"}

\* every field in and out of its range, with a few questions and needs
FieldRequests ==
    {Request(c, s, q, n) :
        c \in (MinClass - 1)..(MaxClass + 1), s \in SubjectInputs, q \in FieldQuestions,
        n \in {NoNeeds, Needs(<<>>), Needs(<<"examples">>), Needs(<<"bogus">>)}}

\* every needs list of at most MaxNeeds kinds
NeedsRequests ==
    {Request(3, s, q, Needs(l)) :
        s \in {"Math", "Languages"}, q \in {"add 2 and 3", "a bomb"},
        l \in ListsOf(NeedKinds, MaxNeeds)}

\* questions around the blocked terms
SafetyRequests ==
    {Request(c, s, q, NoNeeds) :
        c \in {2, 9}, s \in Subject,
        q \in QuestionsOf(SafetyFragments, MaxWords)}

\* a question for every keyword of every classifier, sent to every subject
BranchRequests ==
    {Request(5, s, q, n) :
        s \in Subject, q \in BranchQuestions,
        n \in {NoNeeds, Needs(<<"quiz", "steps">>)}}

Requests == FieldRequests \cup NeedsRequests \cup SafetyRequests \cup BranchRequests

(***************************************************************************)
(* The service: a request arrives, is validated, and is either rejected or *)
(* handled by assist; then the reply is sent.                              *)
(***************************************************************************)
Init ==
    /\ pc = "idle"
    /\ req = NoReq
    /\ resp = NoResp
    /\ content = NoContent
    /\ tone = NoTone
    /\ ran = <<>>

Receive ==
    /\ pc = "idle"
    /\ \E r \in Requests : req' = r
    /\ pc' = "received"
    /\ UNCHANGED <<resp, content, tone, ran>>

\* validation fails: the handler is not entered
Reject ==
    /\ pc = "received"
    /\ ~ValidRequest(req)
    /\ pc' = "rejected"
    /\ UNCHANGED <<req, resp, content, tone, ran>>

\* the handler; content and tone are its local variables, ran lists the
\* functions it called
Assist ==
    /\ pc = "received"
    /\ ValidRequest(req)
    /\ resp' = assist(req)
    /\ IF is_harmful(req.question)
       THEN /\ ran' = <<"is_harmful">>
            /\ UNCHANGED <<content, tone>>
       ELSE /\ ran' = <<"is_harmful", "generate_content", "level_tone">>
            /\ content' = generate_content(req.student_class, req.subject, req.question)
            /\ tone' = level_tone(req.student_class)
    /\ pc' = "responded"
    /\ UNCHANGED req

\* the reply (the response or the validation error) has been sent
Reply ==
    /\ pc \in {"rejected", "responded"}
    /\ pc' = "idle"
    /\ req' = NoReq
    /\ resp' = NoResp
    /\ content' = NoContent
    /\ tone' = NoTone
    /\ ran' = <<>>

Next == Receive \/ Reject \/ Assist \/ Reply

Spec == Init /\ [][Next]_vars

(***************************************************************************)
(* The content functions called on their own, on arguments that need not   *)
(* have passed the validation of a request.                                *)
(***************************************************************************)
MathFragments ==
    MathAdditionKeywords \cup MathSubtractionKeywords \cup MathFractionKeywords
        \cup MathAlgebraKeywords \cup {"ADD", "Minus", "x", "=", " ", "cat"}

ContentFragments ==
    {"add", "photosynthesis", "noun", "adverb", "democracy", "government",
     "algorithm", "flowchart", "Verb", " "}

\* subject arguments: the six of the enum and values outside it
SubjectArgs == Subject \cup {"Art", "math", ""}

CallExplainMath ==
    /\ pc = "idle"
    /\ \E q \in QuestionsOf(MathFragments, MaxWords) :
          /\ req' = Request(3, "Math", q, NoNeeds)
          /\ content' = explain_math(3, q)
    /\ ran' = <<"explain_math">>
    /\ pc' = "returned"
    /\ UNCHANGED <<resp, tone>>

CallGenerateContent ==
    /\ pc = "idle"
    /\ \E c \in {MinClass, MaxClass}, s \in SubjectArgs,
          q \in QuestionsOf(ContentFragments, MaxWords) :
          /\ req' = Request(c, s, q, NoNeeds)
          /\ content' = generate_content(c, s, q)
    /\ ran' = <<"generate_content">>
    /\ pc' = "returned"
    /\ UNCHANGED <<resp, tone>>

Return ==
    /\ pc = "returned"
    /\ pc' = "idle"
    /\ req' = NoReq
    /\ content' = NoContent
    /\ ran' = <<>>
    /\ UNCHANGED <<resp, tone>>

NextFn == CallExplainMath \/ CallGenerateContent \/ Return

SpecFn == Init /\ [][NextFn]_vars

(***************************************************************************)
(* Vocabulary of the properties, stated without the operators of the       *)
(* model.                                                                  *)
(***************************************************************************)
SmallLetters == "abcdefghijklmnopqrstuvwxyz"
CapitalLetters == "ABCDEFGHIJKLMNOPQRSTUVWXYZ"

\* two characters are equal up to case
SameLetter(a, b) ==
    \/ a = b
    \/ \E i \in 1..Len(SmallLetters) :
          {a, b} = {Char(SmallLetters, i), Char(CapitalLetters, i)}

\* k occurs in t as a substring, up to case
OccursIgnoringCase(k, t) ==
    \E i \in 1..(Len(t) - Len(k) + 1) :
        \A j \in 1..Len(k) : SameLetter(Char(t, i + j - 1), Char(k, j))

AnyOccurs(ks, t) == \E k \in ks : OccursIgnoringCase(k, t)

BlockedTerms ==
    {"self-harm", "suicide", "violence", "bomb", "weapon", "drugs", "extremism"}

CanonicalKinds ==
    <<"explanation", "steps", "examples", "practice", "summary", "tips",
      "fun_facts", "related", "visuals", "revision", "quiz">>

CanonicalTitles ==
    <<"Explanation", "Step-by-step", "Examples", "Practice Questions",
      "Quick Summary", "Helpful Tips", "Fun Facts", "Related Topics",
      "Visual Description", "Revision Notes", "Interactive Quiz">>

\* the titles of the sections are the canonical titles of the kinds in active,
\* in canonical order
TitlesAre(sections, active) ==
    LET idx == {i \in DOMAIN CanonicalKinds : CanonicalKinds[i] \in active}
        rank(i) == Cardinality({j \in idx : j <= i})
    IN  /\ Len(sections) = Cardinality(idx)
        /\ \A i \in idx : sections[rank(i)].title = CanonicalTitles[i]

Responded == pc = "responded"
Harmful == is_harmful(req.question)

(***************************************************************************)
(* C1: every accepted request whose question contains a blocked term as a  *)
(* case-insensitive substring is answered with topic "Safety Guard" and    *)
(* exactly one section, titled "Notice", of exactly two lines.             *)
(***************************************************************************)
C1_SafetyGuard ==
    (Responded /\ AnyOccurs(BlockedTerms, req.question)) =>
        /\ resp.topic = "Safety Guard"
        /\ Len(resp.sections) = 1
        /\ resp.sections[1].title = "Notice"
        /\ Len(resp.sections[1].content) = 2

\* a blocked term in capitals, joined from two fragments, has been filtered
C1_Witness ==
    /\ Responded
    /\ req.question = "Weapon"
    /\ req.subject = "Math"
    /\ resp.topic = "Safety Guard"

(***************************************************************************)
(* C2: safety_note is set and follow_up absent exactly when the question   *)
(* is harmful; otherwise follow_up is the fixed string and safety_note is  *)
(* absent; the safety-filtered response is the one the same request        *)
(* without needs gets.                                                     *)
(***************************************************************************)
C2_NoteXorFollowUp ==
    Responded =>
        /\ Harmful =>
              /\ resp.safety_note # None
              /\ resp.follow_up = None
              /\ resp = assist([req EXCEPT !.needs = NoNeeds])
        /\ ~Harmful =>
              /\ resp.safety_note = None
              /\ resp.follow_up =
                    "If this isn't quite your topic, tell me your class (1-10) and the exact chapter or exercise number."

\* a harmful question sent with a non-empty needs list has been answered
C2_Witness ==
    /\ Responded
    /\ Harmful
    /\ req.needs = Needs(<<"examples", "quiz">>)
    /\ resp.safety_note = "Content filtered for safety."

(***************************************************************************)
(* C3: for a non-harmful request with needs absent or a non-empty list,    *)
(* the section titles are the canonical sequence restricted to the active  *)
(* kinds (all eleven, or the set of kinds in needs).                       *)
(***************************************************************************)
C3_CanonicalSections ==
    (Responded /\ ~Harmful) =>
        /\ ~req.needs.given => TitlesAre(resp.sections, SetOf(CanonicalKinds))
        /\ (req.needs.given /\ req.needs.list # <<>>) =>
              TitlesAre(resp.sections, SetOf(req.needs.list))
        /\ req.needs = Needs(<<"examples">>) =>
              /\ Len(resp.sections) = 1
              /\ resp.sections[1].title = "Examples"

\* needs lists tips before summary; the sections come in canonical order
C3_Witness ==
    /\ Responded
    /\ ~Harmful
    /\ req.needs = Needs(<<"tips", "summary">>)
    /\ Len(resp.sections) = 2
    /\ resp.sections[1].title = "Quick Summary"
    /\ resp.sections[2].title = "Helpful Tips"

(***************************************************************************)
(* C4: whenever needs is provided, the empty list included, every section  *)
(* of a non-harmful response has a kind that is a member of needs (so an   *)
(* empty needs gives zero sections).                                       *)
(***************************************************************************)
C4_ProvidedNeedsIsActiveSet ==
    (Responded /\ ~Harmful /\ req.needs.given) =>
        TitlesAre(resp.sections, SetOf(req.needs.list))

(***************************************************************************)
(* C5: the response's level and subject are the request's student_class    *)
(* and subject, on the safety-filtered path and on the content path.       *)
(***************************************************************************)
C5_EchoLevelSubject ==
    Responded =>
        /\ resp.level = req.student_class
        /\ resp.subject = req.subject

\* a grade that is not the first of its tier, echoed on the content path
C5_Witness ==
    /\ Responded
    /\ ~Harmful
    /\ req.student_class = 7
    /\ req.subject = "Social Studies"
    /\ resp.level = 7

(***************************************************************************)
(* C6: level_tone is a four-tier step function of the grade: 1-2, 3-5,     *)
(* 6-8 and 9-10 give the four voices with sent_len 8, 12, 16 and 18, and   *)
(* bullets is true in every tier.                                          *)
(***************************************************************************)
C6_ToneTiers ==
    (Responded /\ ~Harmful) =>
        LET g == req.student_class
        IN  /\ g \in 1..2 =>
                  tone = [voice |-> "very simple, friendly", sent_len |-> 8,
                          bullets |-> TRUE]
            /\ g \in 3..5 =>
                  tone = [voice |-> "simple and clear", sent_len |-> 12,
                          bullets |-> TRUE]
            /\ g \in 6..8 =>
                  tone = [voice |-> "clear with a bit more detail", sent_len |-> 16,
                          bullets |-> TRUE]
            /\ g \in 9..10 =>
                  tone = [voice |-> "concise, structured, and exam-oriented",
                          sent_len |-> 18, bullets |-> TRUE]
            /\ g \in 1..10

\* grade 2, the last grade of the first tier, got the first voice
C6_Witness ==
    /\ Responded
    /\ ~Harmful
    /\ req.student_class = 2
    /\ tone.voice = "very simple, friendly"
    /\ resp.sections[1].content[2] = "I'll keep it very simple, friendly."

(***************************************************************************)
(* C7: the Math classifier checks addition, subtraction, fraction and      *)
(* algebra keywords in this order; the first list with a case-insensitive  *)
(* substring hit alone decides steps, examples, practice and tips, and a   *)
(* question that hits no list gets the generic bundle.                     *)
(***************************************************************************)
MathCalled == pc = "returned" /\ ran = <<"explain_math">>

\* the four lists of a bundle are those of branch b
DecidedBy(bundle, b) ==
    /\ bundle.steps = b.steps
    /\ bundle.examples = b.examples
    /\ bundle.practice = b.practice
    /\ bundle.tips = b.tips

C7_MathPriority ==
    MathCalled =>
        LET q == req.question
            add == AnyOccurs({"add", "sum", "+", "plus"}, q)
            sub == AnyOccurs({"subtrac", "-", "minus", "difference"}, q)
            fra == AnyOccurs({"fraction", "/", "numerator", "denominator"}, q)
            alg == AnyOccurs({"algebra", "solve", "equation", "x=", "find x"}, q)
        IN  /\ add => DecidedBy(content, MathAddition)
            /\ (~add /\ sub) => DecidedBy(content, MathSubtraction)
            /\ (~add /\ ~sub /\ fra) => DecidedBy(content, MathFraction)
            /\ (~add /\ ~sub /\ ~fra /\ alg) => DecidedBy(content, MathAlgebra)
            /\ (~add /\ ~sub /\ ~fra /\ ~alg) => DecidedBy(content, MathGeneric)
            /\ OccursIgnoringCase("add", q) =>
                  /\ content.steps[1] = "Line up the numbers by place value."
                  /\ "23 + 19 = 42" \in SetOf(content.examples)
                  /\ content.steps[2] = "Add digits from right to left."

\* a question that hits the subtraction list first and the addition list
\* second got the addition bundle
C7_Witness ==
    /\ MathCalled
    /\ req.question = "MinusADD"
    /\ content.examples = <<"23 + 19 = 42", "305 + 70 = 375">>
    /\ content.tips[1] = "Check by reversing the addends."

(***************************************************************************)
(* C8: for every subject and every question the bundle of generate_content *)
(* defines the ten keys, so assist never skips a requested kind because    *)
(* the bundle lacks it.                                                    *)
(***************************************************************************)
TenKeys ==
    {"steps", "examples", "practice", "tips", "summary", "fun_facts", "related",
     "visuals", "revision", "quiz"}

C8_BundleComplete ==
    /\ pc # "idle" =>
          \A s \in SubjectArgs :
              DOMAIN generate_content(req.student_class, s, req.question) = TenKeys
    /\ (Responded /\ ~Harmful) =>
          /\ DOMAIN content = TenKeys
          /\ \A i \in DOMAIN CanonicalKinds :
                CanonicalKinds[i] \in include(req) =>
                    \E j \in DOMAIN resp.sections :
                        resp.sections[j].title = CanonicalTitles[i]

\* the photosynthesis branch, whose dictionary literal has seven keys, gave
\* the Visual Description section that was asked for
C8_Witness ==
    /\ Responded
    /\ req.subject = "Science"
    /\ Contains("photosynthesis", req.question)
    /\ req.needs = Needs(<<"quiz", "steps">>)
    /\ Len(resp.sections) = 2
    /\ resp.sections[2].title = "Interactive Quiz"

(***************************************************************************)
(* C9: a request with student_class outside 1..10, a subject outside the   *)
(* enum or a question shorter than 3 characters is rejected before any     *)
(* function of the handler runs and gets no response; every response has   *)
(* a level in 1..10 and a subject of the enum.                             *)
(***************************************************************************)
Malformed(r) ==
    \/ r.student_class < 1
    \/ r.student_class > 10
    \/ r.subject \notin
          {"Math", "Science", "English", "Social Studies", "Languages", "Computer"}
    \/ Len(r.question) < 3

C9_ValidationFirst ==
    /\ (pc \in {"rejected", "responded"} /\ Malformed(req)) =>
          /\ pc = "rejected"
          /\ ran = <<>>
          /\ resp = NoResp
          /\ content = NoContent
    /\ Responded =>
          /\ resp.level \in 1..10
          /\ resp.subject \in
                {"Math", "Science", "English", "Social Studies", "Languages", "Computer"}

\* a harmful question with grade 11 was rejected without the filter running
C9_Witness ==
    /\ pc = "rejected"
    /\ req = Request(11, "Math", "a bomb", NoNeeds)
    /\ ran = <<>>
    /\ resp = NoResp

(***************************************************************************)
(* C10: generate_content dispatches on the subject by exact match: Math,   *)
(* Science, English, Social Studies and Computer go to their own           *)
(* classifier, every other value gets the Languages bundle, which does not *)
(* depend on the question.                                                 *)
(***************************************************************************)
ContentCalled == pc = "returned" /\ ran = <<"generate_content">>

C10_SubjectDispatch ==
    ContentCalled =>
        LET c == req.student_class
            s == req.subject
            q == req.question
        IN  /\ s = "Math" =>
                  /\ content = explain_math(c, q)
                  /\ content.revision[1] = "Revise place value and basic operations."
            /\ s = "Science" =>
                  /\ content = explain_science(c, q)
                  /\ content.revision[1] = "Recall: solid, liquid, gas changes."
            /\ s = "English" =>
                  /\ content = explain_english(c, q)
                  /\ content.revision[1] = "Revise punctuation basics: . , ? !"
            /\ s = "Social Studies" =>
                  /\ content = explain_social(c, q)
                  /\ content.revision[1] =
                        "Remember key terms: democracy, constitution, citizen."
            /\ s = "Computer" =>
                  /\ content = explain_computer(c, q)
                  /\ content.revision[1] =
                        "Revise basic parts: CPU, memory, storage, input/output devices."
            /\ s \notin {"Math", "Science", "English", "Social Studies", "Computer"} =>
                  /\ content = explain_languages(0, "")
                  /\ content.revision =
                        <<"Revise 10 core words daily and one grammar rule.">>
                  /\ content.steps =
                        <<"Learn basic greetings, numbers, and simple grammar.">>

\* the subject "math", which differs from "Math" in case only, got the
\* Languages bundle for an addition question
C10_Witness ==
    /\ ContentCalled
    /\ req.subject = "math"
    /\ req.question = "add"
    /\ content.examples = <<"Hola (Hello) in Spanish; Namaste in Hindi.">>

(***************************************************************************)
(* C11: the content bundle does not depend on the grade: for the same      *)
(* subject and question generate_content returns equal bundles for all     *)
(* grades 1..10, so two non-harmful requests that differ only in           *)
(* student_class get responses that differ only in level and in the tone   *)
(* line of the Explanation section.                                        *)
(***************************************************************************)
\* two section lists are equal except for the second line (the tone line)
\* of a section titled "Explanation"
SameButToneLine(a, b) ==
    /\ Len(a) = Len(b)
    /\ \A i \in DOMAIN a :
          /\ a[i].title = b[i].title
          /\ Len(a[i].content) = Len(b[i].content)
          /\ \A j \in DOMAIN a[i].content :
                (a[i].title # "Explanation" \/ j # 2) =>
                    a[i].content[j] = b[i].content[j]

C11_GradeIndependent ==
    /\ pc \in {"received", "rejected", "responded"} =>
          \A g \in 1..10 :
              generate_content(g, req.subject, req.question)
                  = generate_content(1, req.subject, req.question)
    /\ (Responded /\ ~Harmful) =>
          /\ \A g \in 1..10 : generate_content(g, req.subject, req.question) = content
          /\ \A g \in 1..10 :
                LET other == assist([req EXCEPT !.student_class = g])
                IN  /\ other.level = g
                    /\ other.subject = resp.subject
                    /\ other.topic = resp.topic
                    /\ other.safety_note = resp.safety_note
                    /\ other.follow_up = resp.follow_up
                    /\ SameButToneLine(other.sections, resp.sections)

\* a grade 9 Math request was answered, and the same request for grade 2
\* gets another tone line and the same practice questions
C11_Witness ==
    /\ Responded
    /\ ~Harmful
    /\ req.student_class = 9
    /\ req.subject = "Math"
    /\ ~req.needs.given
    /\ LET other == assist([req EXCEPT !.student_class = 2])
       IN  /\ other.sections[1].content[2] # resp.sections[1].content[2]
           /\ other.sections[4] = resp.sections[4]
           /\ resp.sections[4].title = "Practice Questions"

====
